---- MODULE Spec2Model ----
(***************************************************************************)
(* StableSR for the Automatic1111 WebUI (scripts/stablesr.py).             *)
(*                                                                         *)
(* The model follows one base network (the UNet handed to Script.run) and  *)
(* the StableSR objects that hook it:                                      *)
(*   - the network's forward entry point and its org_forward_stablesr      *)
(*     attribute (the saved-original slot),                                *)
(*   - each StableSR object's latent_image and struct_cond,                *)
(*   - a forward call through the wrapper unet_forward, line by line,      *)
(*   - Script.run, with its try/finally around the hooked run.             *)
(*                                                                         *)
(* Tensors are abstracted to what the code distinguishes: a latent image   *)
(* is an identity and a batch size, a timestep batch is a sequence, and a  *)
(* structural encoding is the pair the encoder was called with.  Device    *)
(* placement (.to(x.device)) keeps the value and is not tracked.           *)
(* set_image_hooks is always the empty dict in this file (nothing ever     *)
(* adds to it), so the loop of set_latent_image has no iterations and the  *)
(* dict is not a variable.                                                 *)
(***************************************************************************)
EXTENDS Integers, Sequences, FiniteSets, TLC

\* ------------------------------------------------------------------ bounds

\* StableSR objects that may call hook/unhook on the network.
NumInst == 2
\* Latent images the orchestrator may hand over; image k has batch size k.
NumImages == 2
\* Timestep values, and the longest timestep batch of a forward call.
MaxT == 2
MaxLen == 2
\* Levels of wrapper nesting followed before a call is declared a runaway
\* recursion.
DepthCap == 2
\* Weight bundles in the model directory.
NumModels == 2
\* Forward calls the sampler makes in one run.
MaxCalls == 2
\* Largest width and height of a source image, in pixels.
MaxDim == 46

Instances == 1..NumInst

\* ------------------------------------------------------------------ values

\* A forward entry point: the network's own forward, or the closure
\* unet_forward created by hook of StableSR object `owner`.
OrigForward == [kind |-> "orig", owner |-> 0]
Wrapper(i) == [kind |-> "wrap", owner |-> i]
\* hasattr(unet, FORWARD_CACHE_NAME) is False.
NoAttr == [kind |-> "absent", owner |-> 0]

\* self.latent_image: None, or a tensor of shape (batch, ...).
NoLatent == [img |-> 0, batch |-> 0]
Latent(k) == [img |-> k, batch |-> k]
Latents == {Latent(k) : k \in 1..NumImages}

\* A timestep batch <<t, t+1, ...>> of length n: entries differ by position,
\* so a prefix is told apart from any other slice.
TsBatch(t, n) == [k \in 1..n |-> t + k - 1]
Timesteps == {TsBatch(t, n) : t \in 1..MaxT, n \in 1..MaxLen}

\* self.struct_cond: None, or the encoder's output.
NoCond == [img |-> 0, batch |-> 0, ts |-> <<>>]

\* The inputs of the lifecycle specification Spec: several objects, two
\* images, one timestep batch.
LifeLatents == {Latent(1), Latent(2)}
LifeTimesteps == {TsBatch(1, 1)}

\* ------------------------------------------------------------------ state

VARIABLES
    fwd,            \* unet.forward
    slot,           \* getattr(unet, 'org_forward_stablesr'), or NoAttr
    spade,          \* the object whose modulation modules are attached, or 0
    latent_image,   \* self.latent_image of each StableSR object
    struct_cond,    \* self.struct_cond of each StableSR object
    call,           \* the forward call in progress through unet_forward
    rpc,            \* where Script.run is; "api" when the objects are driven directly
    stablesr_model, \* Script.stablesr_model: 0 (None) or the loaded object
    last_path,      \* Script.last_path: 0 (None) or the path last loaded
    rout,           \* how the last Script.run ended
    loaded,         \* the path and dtype/device stablesr_model was built with
    last_model_path, \* Script.last_model_path: "unset" until line 161 writes None
    p,              \* the arguments and locals of the Script.run in progress
    cnt,            \* history: forward calls begun and encoder calls made in this run
    given,          \* history: the image last passed to set_latent_image, per object
    last,           \* history: the operation that completed last
    prev,           \* history: the operation that completed before it
    pre,            \* history: the network as it was before `last`
    pre2            \* history: the network as it was before `prev`

net == <<fwd, slot, spade>>
objs == <<latent_image, struct_cond>>
cache == <<stablesr_model, last_path, loaded, last_model_path>>
script == <<rpc, stablesr_model, last_path, rout, loaded, last_model_path, p>>
hist == <<last, prev, pre, pre2, given>>
vars == <<fwd, slot, spade, latent_image, struct_cond, call, rpc,
          stablesr_model, last_path, rout, loaded, last_model_path, p, cnt,
          last, prev, pre, pre2, given>>

Idle == [pc |-> "idle", owner |-> 0, ts |-> <<>>, depth |-> 0, rd |-> NoCond]
\* Script.stablesr_model is None.
NoObject == [path |-> 0, prec |-> "none"]
\* No Script.run is in progress.
NoRun == [sel |-> 0, prec |-> "none", img |-> <<0, 0>>, scale |-> 0,
          size |-> <<0, 0>>]
NoOp == [op |-> "none", inst |-> 0, res |-> "ok", ts |-> <<>>, img |-> 0]

\* The history variables record a completed operation and the image the
\* object has been given by then; they are read by the properties only.
LogOp(op, i, res, ts) ==
    /\ last' = [op |-> op, inst |-> i, res |-> res, ts |-> ts,
                img |-> given'[i].img]
    /\ prev' = last
    /\ pre' = [fwd |-> fwd, slot |-> slot]
    /\ pre2' = pre

\* `given` follows the calls alone: set_latent_image(l) gives l, unhook ends
\* the run the image was given for.
Log(op, i, res, ts) ==
    /\ given' = IF op = "unhook" THEN [given EXCEPT ![i] = NoLatent] ELSE given
    /\ LogOp(op, i, res, ts)

LogSet(i, l) ==
    /\ given' = [given EXCEPT ![i] = l]
    /\ LogOp("set", i, "ok", <<>>)

\* ------------------------------------------------------------------ hook

\* Lines 84-85: the forward is saved only when no slot exists yet.
SaveForwardAlways(f, s) == f
SaveForward(f, s) == IF s = NoAttr THEN f ELSE s

\* Lines 87-93: unet.forward becomes the closure over self, whatever
\* self.latent_image holds.
InstallForwardIfLatent(i) == IF latent_image[i] = NoLatent THEN fwd ELSE Wrapper(i)
InstallForward(i) == Wrapper(i)

\* Line 95, SPADELayers.hook(unet, lambda: self.struct_cond): attaches all
\* modulation modules, handing them the accessor of object i, or raises and
\* attaches none (all-or-nothing).
SpadeHook(sp, i, ok) == IF ok THEN i ELSE sp

\* StableSR.hook(unet) by object i; ok is whether SPADELayers.hook returns.
HookBody(i, ok) ==
    /\ slot' = SaveForward(fwd, slot)
    /\ fwd' = InstallForward(i)
    /\ spade' = SpadeHook(spade, i, ok)
    /\ UNCHANGED <<latent_image, struct_cond, call>>
    /\ Log("hook", i, IF ok THEN "ok" ELSE "ModuleError", <<>>)

\* ------------------------------------------------------------------ unhook

\* Lines 100-101.
UnhookLatentKept(l) == l
UnhookLatent(l) == NoLatent
UnhookCondKept(c) == c
UnhookCond(c) == NoCond

\* Lines 104-105: the forward is restored only when a slot exists.
RestoreForwardNoGuard(f, s) == s
RestoreForwardNever(f, s) == f
RestoreForward(f, s) == IF s # NoAttr THEN s ELSE f

\* Line 106: delattr, under the same guard.
DropSlotKept(s) == s
DropSlot(s) == NoAttr

\* Line 109, SPADELayers.unhook(unet): detaches every module.
SpadeUnhook(sp) == 0

\* StableSR.unhook(unet) by object i.
UnhookBody(i) ==
    /\ latent_image' = [latent_image EXCEPT ![i] = UnhookLatent(@)]
    /\ struct_cond' = [struct_cond EXCEPT ![i] = UnhookCond(@)]
    /\ fwd' = RestoreForward(fwd, slot)
    /\ slot' = DropSlot(slot)
    /\ spade' = SpadeUnhook(spade)
    /\ UNCHANGED call
    /\ Log("unhook", i, "ok", <<>>)

\* ------------------------------------------------------------------ set_latent_image

\* Line 78: the argument replaces the stored image.
StoreLatentOnce(old, l) == IF old = NoLatent THEN l ELSE old
StoreLatent(old, l) == l

\* Line 78 leaves self.struct_cond alone.
SetCondCleared(c) == NoCond
SetCond(c) == c

\* Lines 77-80.
SetLatentImageBody(i, l) ==
    /\ latent_image' = [latent_image EXCEPT ![i] = StoreLatent(@, l)]
    /\ struct_cond' = [struct_cond EXCEPT ![i] = SetCond(@)]
    /\ UNCHANGED <<fwd, slot, spade, call>>
    /\ LogSet(i, l)

\* ------------------------------------------------------------------ accessor

\* Line 95, lambda: self.struct_cond -- returns the field, whatever it holds.
AccessorValue(i) == struct_cond[i]
AccessorResult(c) == IF c = NoCond THEN "None" ELSE "value"

\* ------------------------------------------------------------------ unet_forward

Min(a, b) == IF a < b THEN a ELSE b

\* Line 90, timesteps[:self.latent_image.shape[0]].
NoTruncate(ts, b) == ts
Truncate(ts, b) == SubSeq(ts, 1, Min(Len(ts), b))

\* Line 90, self.struct_cond_model(latent, timesteps): the encoder is a pure
\* function of its two arguments.
struct_cond_model(l, ts) == [img |-> l.img, batch |-> l.batch, ts |-> ts]

\* Line 88: None has no .to, so the call raises AttributeError when no latent
\* image is set.
CanMoveAlways(l) == TRUE
CanMove(l) == l # NoLatent

\* The order of the wrapper's statements, lines 88 to 91.
StepAfterNoClear(pc) ==
    CASE pc = "l88" -> "l90"
      [] pc = "l89" -> "l90"
      [] pc = "l90" -> "l91"
StepAfterNoEncode(pc) ==
    CASE pc = "l88" -> "l89"
      [] pc = "l89" -> "l91"
      [] pc = "l90" -> "l91"
StepAfterDelegateFirst(pc) ==
    CASE pc = "l88" -> "l91"
      [] pc = "l89" -> "l90"
      [] pc = "l90" -> "l91"
StepAfter(pc) ==
    CASE pc = "l88" -> "l89"
      [] pc = "l89" -> "l90"
      [] pc = "l90" -> "l91"

\* An exception leaving the forward call: inside Script.run it leaves
\* process_images and the try block (lines 221-229).
TryExitNoFinally(outcome) == IF outcome = "ok" THEN "finally" ELSE "idle"
TryExit(outcome) == "finally"

FwdRaise(err) ==
    /\ call' = Idle
    /\ Log("fwd", call.owner, err, call.ts)
    /\ rpc' = IF rpc = "api" THEN rpc ELSE TryExit("raise")
    /\ rout' = IF rpc = "api" THEN rout ELSE err
    /\ UNCHANGED <<cache, p>>

\* unet.forward(x, timesteps, ...) is called while it is the wrapper.
FwdBegin(ts) ==
    /\ call.pc = "idle"
    /\ fwd.kind = "wrap"
    /\ call' = [pc |-> "l88", owner |-> fwd.owner, ts |-> ts, depth |-> 1,
                rd |-> NoCond]
    /\ cnt' = IF rpc = "api" THEN cnt ELSE [cnt EXCEPT !.fwd = @ + 1]
    /\ UNCHANGED <<net, objs, script, hist>>

\* Line 88.
FwdMove ==
    /\ call.pc = "l88"
    /\ IF CanMove(latent_image[call.owner])
       THEN /\ call' = [call EXCEPT !.pc = StepAfter("l88")]
            /\ UNCHANGED <<script, hist>>
       ELSE FwdRaise("AttributeError")
    /\ UNCHANGED <<net, objs, cnt>>

\* Line 89.
FwdClear ==
    /\ call.pc = "l89"
    /\ struct_cond' = [struct_cond EXCEPT ![call.owner] = NoCond]
    /\ call' = [call EXCEPT !.pc = StepAfter("l89")]
    /\ UNCHANGED <<net, latent_image, script, hist, cnt>>

\* Line 90.
FwdEncode ==
    /\ call.pc = "l90"
    /\ struct_cond' = [struct_cond EXCEPT ![call.owner] =
            struct_cond_model(latent_image[call.owner],
                              Truncate(call.ts, latent_image[call.owner].batch))]
    /\ call' = [call EXCEPT !.pc = StepAfter("l90")]
    /\ cnt' = IF rpc = "api" THEN cnt ELSE [cnt EXCEPT !.enc = @ + 1]
    /\ UNCHANGED <<net, latent_image, script, hist>>

\* Line 91: the slot is looked up when the call is made.  The original
\* forward runs the network's layers, where the attached modulation modules
\* fetch the encoding through their accessor.
FwdDelegate ==
    /\ call.pc = "l91"
    /\ UNCHANGED <<net, objs, cnt>>
    /\ CASE slot.kind = "absent" -> FwdRaise("AttributeError")
         [] slot.kind = "orig" ->
              /\ call' = [call EXCEPT !.pc = "orig",
                             !.rd = IF spade = 0 THEN NoCond ELSE AccessorValue(spade)]
              /\ UNCHANGED <<script, hist>>
         [] slot.kind = "wrap" ->
              IF call.depth >= DepthCap
              THEN FwdRaise("RecursionError")
              ELSE /\ call' = [call EXCEPT !.pc = "l88", !.owner = slot.owner,
                                  !.depth = @ + 1]
                   /\ UNCHANGED <<script, hist>>

\* The original forward returns, and the wrapper returns its result.
FwdReturn ==
    /\ call.pc = "orig"
    /\ call' = Idle
    /\ Log("fwd", call.owner, "ok", call.ts)
    /\ UNCHANGED <<net, objs, script, cnt>>

FwdStep == FwdMove \/ FwdClear \/ FwdEncode \/ FwdDelegate \/ FwdReturn

\* ------------------------------------------------------------------ the objects driven directly

Hook(i) ==
    /\ rpc = "api" /\ call.pc = "idle"
    /\ \E ok \in BOOLEAN : HookBody(i, ok)
    /\ UNCHANGED <<script, cnt>>

Unhook(i) ==
    /\ rpc = "api" /\ call.pc = "idle"
    /\ UnhookBody(i)
    /\ UNCHANGED <<script, cnt>>

SetLatentImage(i) ==
    /\ rpc = "api" /\ call.pc = "idle"
    /\ \E l \in LifeLatents : SetLatentImageBody(i, l)
    /\ UNCHANGED <<script, cnt>>

Forward ==
    /\ rpc = "api"
    /\ \E ts \in LifeTimesteps : FwdBegin(ts)

\* The accessor handed out by hook(i) is called outside a forward call.
ReadAccessor(i) ==
    /\ rpc = "api" /\ call.pc = "idle"
    /\ fwd = Wrapper(i)
    /\ Log("read", i, AccessorResult(AccessorValue(i)), <<>>)
    /\ UNCHANGED <<net, objs, call, script, cnt>>

InitState ==
    /\ fwd = OrigForward
    /\ slot = NoAttr
    /\ spade = 0
    /\ latent_image = [i \in Instances |-> NoLatent]
    /\ struct_cond = [i \in Instances |-> NoCond]
    /\ call = Idle
    /\ last = NoOp
    /\ prev = NoOp
    /\ pre = [fwd |-> OrigForward, slot |-> NoAttr]
    /\ pre2 = [fwd |-> OrigForward, slot |-> NoAttr]
    /\ given = [i \in Instances |-> NoLatent]
    /\ cnt = [fwd |-> 0, enc |-> 0]
    /\ stablesr_model = 0
    /\ last_path = 0
    /\ loaded = NoObject
    /\ last_model_path = "unset"
    /\ rout = "none"

InitObjects == InitState /\ p = NoRun

Init == InitObjects /\ rpc = "api"

Next ==
    \/ \E i \in Instances : Hook(i)
    \/ \E i \in Instances : Unhook(i)
    \/ \E i \in Instances : SetLatentImage(i)
    \/ \E i \in Instances : ReadAccessor(i)
    \/ Forward
    \/ FwdStep

Spec == Init /\ [][Next]_vars

\* ------------------------------------------------------------------ Script.run

\* The dropdown's choices: 0 is 'None', 1..NumModels are the files of
\* model_list (model k at path k), NumModels + 1 is a name that is not in the
\* list or whose file is gone.
Selections == 0..(NumModels + 1)

\* Lines 63-75, StableSR(path, dtype, device): a new object; i is an index
\* no live reference uses.
Fresh(i) == fwd # Wrapper(i) /\ slot # Wrapper(i) /\ spade # i

\* The dtype/device of the network's first parameter (line 189).
Precisions == {"half", "float"}

\* The slider of line 149, in tenths: minimum 1, maximum 16, step 0.1.
MinScale == 10
MaxScale == 160
Scales == MinScale..MaxScale

\* Line 172, int(init_img.width * scale_factor), is a product of doubles,
\* truncated.  A scale of k tenths is the double nearest to k/10, and for
\* these pairs <<width, k>> the rounded product lies just below the integer
\* width * k / 10, so int() yields one less (45 * 8.2 is 368.99999999999994).
\* The list is complete for widths up to 54.
FloatShort ==
    { <<15, 82>>, <<25, 46>>, <<25, 82>>, <<25, 92>>, <<25, 102>>, <<30, 41>>,
      <<30, 82>>, <<45, 14>>, <<45, 28>>, <<45, 46>>, <<45, 56>>, <<45, 82>>,
      <<45, 92>>, <<45, 102>>, <<45, 112>>, <<50, 23>>, <<50, 41>>, <<50, 46>>,
      <<50, 51>>, <<50, 82>>, <<50, 87>>, <<50, 92>>, <<50, 97>>, <<50, 102>> }
IntProduct(w, k) == ((w * k) \div 10) - (IF <<w, k>> \in FloatShort THEN 1 ELSE 0)

\* Lines 175-176 and 178-179.
RoundUp8NoGuard(t) == (t + 8) - (t % 8)
RoundUp8(t) == IF t % 8 # 0 THEN (t + 8) - (t % 8) ELSE t

\* Lines 171-183: p.width, p.height.
TargetSize(img, k) ==
    <<RoundUp8(IntProduct(img[1], k)), RoundUp8(IntProduct(img[2], k))>>

\* The requests of the run specification SpecRun: one image, two scales.
RunImages == {<<45, 8>>}
RunScales == {MinScale, 82}

\* Lines 156-218, up to the try block: model m is selected, the network's
\* first parameter has dtype/device d, the image is img, the scale k tenths.
RunStart(m, d, img, k) ==
    /\ rpc = "idle"
    /\ UNCHANGED <<net, call, hist>>
    /\ CASE m = 0 ->
              \* lines 158-162: last_model_path is reset, last_path is not
              /\ stablesr_model' = 0
              /\ loaded' = NoObject
              /\ last_model_path' = "None"
              /\ rout' = "NoModel"
              /\ UNCHANGED <<rpc, last_path, objs, p, cnt>>
         [] m = NumModels + 1 ->
              \* lines 164-168
              /\ rout' = "gr.Error"
              /\ UNCHANGED <<rpc, cache, objs, p, cnt>>
         [] OTHER ->
              IF last_path # m
              THEN \* lines 190-195: the old object is dropped first
                   \/ \E i \in Instances :
                        /\ Fresh(i)
                        /\ stablesr_model' = i
                        /\ loaded' = [path |-> m, prec |-> d]
                        /\ latent_image' = [latent_image EXCEPT ![i] = NoLatent]
                        /\ struct_cond' = [struct_cond EXCEPT ![i] = NoCond]
                        /\ last_path' = m
                        /\ rpc' = "try"
                        /\ rout' = "running"
                        /\ p' = [sel |-> m, prec |-> d, img |-> img, scale |-> k,
                                 size |-> TargetSize(img, k)]
                        /\ cnt' = [fwd |-> 0, enc |-> 0]
                        /\ UNCHANGED last_model_path
                   \* line 194 raises: the weights cannot be loaded
                   \/ /\ stablesr_model' = 0
                      /\ loaded' = NoObject
                      /\ rout' = "LoadError"
                      /\ UNCHANGED <<rpc, last_path, last_model_path, objs, p, cnt>>
              ELSE /\ rpc' = "try"
                   /\ rout' = "running"
                   /\ p' = [sel |-> m, prec |-> d, img |-> img, scale |-> k,
                            size |-> TargetSize(img, k)]
                   /\ cnt' = [fwd |-> 0, enc |-> 0]
                   /\ UNCHANGED <<cache, objs>>

\* Line 222.
RunHook ==
    /\ rpc = "try"
    /\ UNCHANGED <<cache, p, cnt>>
    /\ IF stablesr_model = 0
       THEN /\ rpc' = TryExit("raise")
            /\ rout' = "AttributeError"
            /\ UNCHANGED <<net, objs, call, hist>>
       ELSE \E ok \in BOOLEAN :
              /\ HookBody(stablesr_model, ok)
              /\ rpc' = IF ok THEN "proc" ELSE TryExit("raise")
              /\ rout' = IF ok THEN rout ELSE "ModuleError"

\* Line 223, process_images calls p.sample, which is sample_custom: line 198.
RunSample ==
    /\ rpc = "proc"
    /\ \E l \in Latents : SetLatentImageBody(stablesr_model, l)
    /\ rpc' = "sampling"
    /\ UNCHANGED <<cache, p, cnt, rout>>

\* Lines 203/208: the sampler calls the network's forward.
RunForward ==
    /\ rpc = "sampling"
    /\ cnt.fwd < MaxCalls
    /\ \E ts \in Timesteps : FwdBegin(ts)

\* Line 214: sample_custom returns.
RunSampleDone ==
    /\ rpc = "sampling" /\ call.pc = "idle"
    /\ rpc' = "proc"
    /\ UNCHANGED <<net, objs, call, hist, cache, p, cnt, rout>>

\* Line 223: anything in process_images raises, a forward call in progress
\* included.
RunProcRaise ==
    /\ rpc \in {"proc", "sampling"}
    /\ call' = Idle
    /\ rpc' = TryExit("raise")
    /\ rout' = "Exception"
    /\ IF call.pc = "idle"
       THEN UNCHANGED hist
       ELSE Log("fwd", call.owner, "Exception", call.ts)
    /\ UNCHANGED <<net, objs, cache, p, cnt>>

\* Line 223: process_images returns.
RunProcDone ==
    /\ rpc = "proc"
    /\ rpc' = "colorfix"
    /\ UNCHANGED <<net, objs, call, hist, cache, p, cnt, rout>>

\* Lines 224-227.
RunColorFix ==
    /\ rpc = "colorfix"
    /\ \E ok \in BOOLEAN :
         /\ rpc' = TryExit(IF ok THEN "ok" ELSE "raise")
         /\ rout' = IF ok THEN "ok" ELSE "Exception"
    /\ UNCHANGED <<net, objs, call, hist, cache, p, cnt>>

\* Lines 228-229.
RunFinally ==
    /\ rpc = "finally"
    /\ rpc' = "idle"
    /\ p' = NoRun
    /\ UNCHANGED <<cache, cnt>>
    /\ IF stablesr_model = 0
       THEN /\ rout' = "AttributeError"
            /\ UNCHANGED <<net, objs, call, hist>>
       ELSE /\ UnhookBody(stablesr_model)
            /\ UNCHANGED rout

InitRun == InitObjects /\ rpc = "idle"

NextRun ==
    \/ \E m \in Selections, d \in Precisions, img \in RunImages, k \in RunScales :
         RunStart(m, d, img, k)
    \/ RunHook
    \/ RunSample
    \/ RunForward
    \/ RunSampleDone
    \/ RunProcRaise
    \/ RunProcDone
    \/ RunColorFix
    \/ RunFinally
    \/ FwdStep

SpecRun == InitRun /\ [][NextRun]_vars

\* The resize step of Script.run on its own: any image of up to MaxDim by
\* MaxDim pixels, any scale of the slider.
Dims == 1..MaxDim

InitResize ==
    /\ InitState
    /\ rpc = "resize"
    /\ \E w \in Dims, h \in Dims, k \in Scales :
         p = [NoRun EXCEPT !.img = <<w, h>>, !.scale = k]

\* Lines 171-183.
Resize ==
    /\ rpc = "resize"
    /\ p' = [p EXCEPT !.size = TargetSize(p.img, p.scale)]
    /\ rpc' = "resized"
    /\ UNCHANGED <<net, objs, call, hist, cache, cnt, rout>>

NextResize == Resize

SpecResize == InitResize /\ [][NextResize]_vars

\* ------------------------------------------------------------------ properties

\* HookState of the network.
Unhooked == fwd = OrigForward /\ slot = NoAttr
WasUnhooked(n) == n.fwd = OrigForward /\ n.slot = NoAttr

\* What the encoder returns for object i and a call's timesteps.
Expected(i, ts) ==
    struct_cond_model(latent_image[i], Truncate(ts, latent_image[i].batch))

\* The number of wrappers a call of f goes through before it reaches the
\* network's own forward; more than DepthCap when it never does.
RECURSIVE Levels(_, _)
Levels(f, n) ==
    IF f.kind = "orig" THEN 0
    ELSE IF f.kind = "absent" \/ n = 0 THEN DepthCap + 1
    ELSE 1 + Levels(slot, n - 1)
Indirection == Levels(fwd, DepthCap)

\* C1: on an Unhooked network, hook(unet) followed immediately by
\* unhook(unet) of the same object leaves unet.forward equal to the forward
\* it had before hook, and leaves no org_forward_stablesr attribute.
C1_ExactTeardown ==
    (/\ prev.op = "hook" /\ last.op = "unhook" /\ last.inst = prev.inst
     /\ WasUnhooked(pre2))
    => (fwd = pre2.fwd /\ slot = NoAttr)

C1_Witness ==
    /\ prev.op = "hook" /\ prev.res = "ok"
    /\ last.op = "unhook" /\ last.inst = prev.inst
    /\ WasUnhooked(pre2)
    /\ pre.fwd = Wrapper(last.inst) /\ pre.slot = OrigForward
    /\ Unhooked

\* C2: hook called twice in a row on an Unhooked network does not nest
\* wrappers: the slot still holds the pre-install forward, never a wrapper,
\* the installed forward reaches the original through exactly one level of
\* indirection, and every call enters the original forward at depth one.
C2_IdempotentInstall ==
    /\ (/\ prev.op = "hook" /\ last.op = "hook" /\ last.inst = prev.inst
        /\ WasUnhooked(pre2))
       => (/\ slot = pre2.fwd
           /\ slot.kind # "wrap"
           /\ fwd = Wrapper(last.inst)
           /\ Indirection = 1)
    /\ call.pc = "orig" => call.depth = 1

C2_Witness ==
    /\ prev.op = "hook" /\ prev.res = "ok"
    /\ last.op = "hook" /\ last.res = "ok" /\ last.inst = prev.inst
    /\ WasUnhooked(pre2)
    /\ pre.fwd = Wrapper(last.inst)
    /\ slot = OrigForward /\ Indirection = 1

\* The ways a run that reached the try block ends.
RunEnded == {"ok", "Exception", "ModuleError", "AttributeError"}

\* C3: whenever Script.run has returned or propagated an error after
\* reaching the try block, the network is Unhooked, and unhook of the loaded
\* object was the last operation on it.
C3_RollbackOnFailure ==
    (rpc = "idle" /\ rout \in RunEnded)
    => (/\ Unhooked
        /\ stablesr_model # 0 => last.op = "unhook" /\ last.inst = stablesr_model)

C3_Witness ==
    /\ rpc = "idle" /\ rout = "Exception"
    /\ last.op = "unhook" /\ prev.op = "fwd"
    /\ pre.fwd = Wrapper(last.inst) /\ pre.slot = OrigForward
    /\ Unhooked

C5_CacheFresh ==
    /\ call.pc \in {"l91", "orig"}
       => struct_cond[call.owner] = Expected(call.owner, call.ts)
    /\ (call.pc = "orig" /\ spade = call.owner)
       => call.rd = Expected(call.owner, call.ts)
    /\ (call.pc = "idle" /\ last.op = "fwd" /\ last.res = "ok")
       => struct_cond[last.inst] = Expected(last.inst, last.ts)

C5_Witness ==
    /\ call.pc = "idle"
    /\ prev.op = "fwd" /\ prev.res = "ok"
    /\ last.op = "fwd" /\ last.res = "ok" /\ last.inst = prev.inst
    /\ Expected(last.inst, last.ts) # Expected(last.inst, prev.ts)
    /\ struct_cond[last.inst] = Expected(last.inst, last.ts)

\* C6, as claimed: hook on a network whose forward is the wrapper of another
\* object fails with ConflictError and leaves that wrapper installed.
C6_ConflictOnForeignHook ==
    (last.op = "hook" /\ pre.fwd.kind = "wrap" /\ pre.fwd.owner # last.inst)
    => (last.res = "ConflictError" /\ fwd = pre.fwd)

C8_UnhookNoOp ==
    (last.op = "unhook" /\ WasUnhooked(pre))
    => (last.res = "ok" /\ fwd = pre.fwd /\ slot = NoAttr)

C8_Witness ==
    /\ last.op = "unhook" /\ last.res = "ok"
    /\ prev.op \in {"none", "unhook"}
    /\ WasUnhooked(pre)
    /\ fwd = OrigForward /\ slot = NoAttr

\* C9: after unhook returns, the object's cached encoding and latent image
\* are both None.
C9_ClearedAfterUnhook ==
    last.op = "unhook"
    => (latent_image[last.inst] = NoLatent /\ struct_cond[last.inst] = NoCond)

C9_Witness ==
    /\ prev.op = "fwd" /\ prev.res = "ok"
    /\ last.op = "unhook" /\ last.inst = prev.inst
    /\ latent_image[last.inst] = NoLatent /\ struct_cond[last.inst] = NoCond

\* C10, as claimed: the accessor read right after hook, while nothing has
\* been encoded, fails with NotReadyError.
C10_NotReadyBeforeForward ==
    (/\ prev.op = "hook" /\ last.op = "read" /\ last.inst = prev.inst
     /\ struct_cond[last.inst] = NoCond)
    => last.res = "NotReadyError"

\* C11, as claimed: hook does not proceed when the dtype/device the loaded
\* weights were built with differ from those of the network's first parameter
\* in this run: it fails with ConfigError, so the run never gets past line 222
\* with such a mismatch.
C11_MismatchDetected ==
    /\ rpc \in {"proc", "sampling", "colorfix"} => loaded.prec = p.prec
    /\ (rpc = "finally" /\ stablesr_model # 0 /\ loaded.prec # p.prec
        /\ last.op = "hook")
       => last.res = "ConfigError"

\* C12: each target dimension is the smallest multiple of 8 that is not
\* below the floor of dimension * scale_factor (the product Python computes,
\* in double precision): a multiple of 8, at least the floor, at most 7 above
\* it, with no multiple of 8 in between, and the floor itself when that is
\* divisible by 8.
C12_ResizeRounding ==
    rpc = "resized"
    => \A d \in 1..2 :
         LET t == IntProduct(p.img[d], p.scale)
             r == p.size[d]
         IN  /\ r % 8 = 0
             /\ r >= t
             /\ r - t <= 7
             /\ \A m \in t..(r - 1) : m % 8 # 0
             /\ t % 8 = 0 => r = t

\* 45 * 8.2 is 368 in double precision, already divisible by 8; 8 * 8.2
\* floors to 65 and is rounded up to 72.
C12_Witness ==
    /\ rpc = "resized"
    /\ p.img = <<45, 8>> /\ p.scale = 82
    /\ p.size = <<368, 72>>

\* C13: set_latent_image only stores the image it is given: the step leaves
\* every cached encoding, the network's forward, the slot and the attached
\* modules as they were and touches no other object's image; an encoding
\* changes only in a forward call (lines 89-90) or in unhook.
C13_SetStoresOnly ==
    [][/\ (last'.op = "set" /\ hist' # hist)
          => /\ struct_cond' = struct_cond
             /\ fwd' = fwd /\ slot' = slot /\ spade' = spade
             /\ latent_image'[last'.inst] = given'[last'.inst]
             /\ \A j \in Instances \ {last'.inst} :
                  latent_image'[j] = latent_image[j]
       /\ struct_cond' # struct_cond
          => \/ call.pc \in {"l89", "l90"}
             \/ last'.op = "unhook" /\ hist' # hist]_vars

\* An image is set while the encoding of another image is cached: the
\* encoding stays.
C13_Witness ==
    /\ last.op = "set" /\ prev.op = "fwd" /\ prev.res = "ok"
    /\ fwd = Wrapper(last.inst)
    /\ struct_cond[last.inst] # NoCond
    /\ struct_cond[last.inst].img # latent_image[last.inst].img

\* C14: a forward call through the wrapper encodes the image most recently
\* passed to set_latent_image of the wrapper's object, whether that was
\* before or after hook, and whether or not an earlier call encoded another
\* image.
C14_EncodesLatestImage ==
    /\ call.pc \in {"l91", "orig"}
       => /\ given[call.owner] # NoLatent
          /\ struct_cond[call.owner].img = given[call.owner].img
          /\ struct_cond[call.owner].batch = given[call.owner].batch
    /\ (call.pc = "idle" /\ last.op = "fwd" /\ last.res = "ok")
       => /\ struct_cond[last.inst].img = last.img
          /\ last.img = given[last.inst].img

\* hook, set_latent_image, a forward call, set_latent_image with another
\* image, and the next forward call has encoded that image.
C14_Witness ==
    /\ call.pc = "orig"
    /\ prev.op = "fwd" /\ prev.res = "ok" /\ prev.inst = call.owner
    /\ last.op = "set" /\ last.inst = call.owner
    /\ pre2.fwd = Wrapper(call.owner)
    /\ prev.img # last.img
    /\ struct_cond[call.owner].img = last.img

\* C15: two encodings never coexist: when the encoder is about to be invoked
\* (line 90) the cache of the wrapper's object is None, and every step that
\* puts an encoding into a cache starts from an empty cache.
C15_NoTwoEncodings ==
    [][/\ call.pc = "l90" => struct_cond[call.owner] = NoCond
       /\ \A i \in Instances :
            (struct_cond'[i] # struct_cond[i] /\ struct_cond'[i] # NoCond)
            => struct_cond[i] = NoCond]_vars

\* The encoder is about to be invoked in a call that follows a completed
\* call of the same object: the encoding of that call is gone.
C15_Witness ==
    /\ call.pc = "l90"
    /\ last.op = "fwd" /\ last.res = "ok" /\ last.inst = call.owner
    /\ struct_cond[call.owner] = NoCond

\* C16: in a run hook, N forward calls, unhook, the encoder is invoked once
\* per forward call, before the original forward is entered: the N-th call
\* has made the N-th invocation by the time it delegates, and no invocation
\* happens outside a call.  When the run has returned, no hook state remains:
\* no slot, the original forward restored, no module attached, image and
\* cache None.
C16_OneEncodingPerForward ==
    /\ call.pc \in {"l88", "l89", "l90"} => cnt.enc = cnt.fwd - 1
    /\ call.pc \in {"l91", "orig"} => cnt.enc = cnt.fwd
    /\ (call.pc = "idle" /\ rpc \in {"proc", "sampling", "colorfix"})
       => cnt.enc = cnt.fwd
    /\ (rpc = "idle" /\ rout = "ok")
       => /\ cnt.enc = cnt.fwd
          /\ Unhooked /\ spade = 0
          /\ latent_image[stablesr_model] = NoLatent
          /\ struct_cond[stablesr_model] = NoCond

\* A run with at least two forward calls has returned.
C16_Witness ==
    /\ rpc = "idle" /\ rout = "ok"
    /\ cnt.fwd >= 2 /\ cnt.enc = cnt.fwd
    /\ last.op = "unhook" /\ prev.op = "fwd" /\ prev.res = "ok"
    /\ Unhooked

\* C17: the timestep batch the encoder is given is the leading prefix of the
\* call's timesteps, of length min(number of timesteps, batch size of the
\* image): cut when there are more timesteps than images, and left as it is,
\* not padded, when there are fewer.
C17_TimestepPrefix ==
    call.pc \in {"l91", "orig"}
    => LET e == struct_cond[call.owner].ts
           n == Len(call.ts)
           b == latent_image[call.owner].batch
       IN  /\ Len(e) = IF n <= b THEN n ELSE b
           /\ Len(e) <= n
           /\ \A k \in 1..Len(e) : e[k] = call.ts[k]

\* Two timesteps are cut to the one image of the batch, in a run whose
\* previous call had one timestep for a batch of two images.
C17_Witness ==
    /\ call.pc = "orig"
    /\ Len(call.ts) = 2 /\ latent_image[call.owner].batch = 1
    /\ struct_cond[call.owner].ts = <<call.ts[1]>>
    /\ last.op = "set" /\ prev.op = "fwd" /\ prev.res = "ok"
    /\ Len(prev.ts) = 1 /\ prev.img = 2

\* C18, as claimed: whenever run reaches the hook step (line 222) a StableSR
\* object is loaded, and it was loaded from the path of the selected model.
C18_ModelLoadedAtHook ==
    rpc = "try" => (stablesr_model # 0 /\ loaded.path = p.sel)

\* C19: in every state reached by hook and unhook calls of one or several
\* objects on the network, the slot exists exactly when the forward is a
\* wrapper, the slot never holds a wrapper but the network's own forward, and
\* one unhook, by any object, has restored that forward and removed the slot.
C19_SlotWrapperConsistent ==
    /\ slot # NoAttr <=> fwd.kind = "wrap"
    /\ slot # NoAttr => slot = OrigForward
    /\ fwd.kind # "absent"
    /\ last.op = "unhook" => (fwd = OrigForward /\ slot = NoAttr)

\* An object hooks over the wrapper of another one, and a single unhook by
\* the first object restores the network.
C19_Witness ==
    /\ last.op = "unhook" /\ prev.op = "hook" /\ prev.inst # last.inst
    /\ pre2.fwd = Wrapper(last.inst) /\ pre2.slot = OrigForward
    /\ pre.fwd = Wrapper(prev.inst) /\ pre.slot = OrigForward
    /\ fwd = OrigForward /\ slot = NoAttr

====
